---- MODULE Spec2Model ----
(***************************************************************************)
(* Cargo stowage core of space_Logistics: the item and container stores    *)
(* and the placement, retrieval and undocking services that mutate them.   *)
(* Lengths are whole centimetres, so volumes and scores are integers.      *)
(***************************************************************************)
EXTENDS Integers, Sequences, FiniteSets, TLC

VARIABLES items, itemOrder, containers, result, CURRENT_DATE, requests

vars == <<items, itemOrder, containers, result, CURRENT_DATE, requests>>

(***************************************************************************)
(* Bounds and the catalogue of records the ingest step can deliver.        *)
(***************************************************************************)
MaxUsage == 2

ItemIds == {"A", "C", "D"}

MaxPlanItems == 2

ContainerIds == {"c1", "c2", "c3"}

ContainerOrder == <<"c1", "c2", "c3">>

TEMPORARY_STORAGE == "temporary_storage"

NoContainer == "None"

\* native (width, depth, height) of an ingested item record
ItemDims(i) ==
    CASE i = "A" -> <<1, 1, 1>>
      [] i = "C" -> <<2, 1, 1>>
      [] OTHER   -> <<2, 2, 1>>

ItemPriority(i) ==
    CASE i = "A" -> 40
      [] i = "C" -> 50
      [] OTHER   -> 20

ItemZone(i) == IF i = "D" THEN "Z2" ELSE "Z1"

\* usageLimit of an ingested item record
ItemUsage(i) ==
    CASE i = "A" -> MaxUsage
      [] i = "C" -> 1
      [] OTHER   -> 0

\* days from the wall clock to the expiry date; -1 stands for "N/A"
ItemExpiryDays(i) == IF i = "D" THEN 30 ELSE -1

ContainerDims(c) == IF c = "c1" THEN <<2, 2, 1>> ELSE <<1, 1, 1>>

ContainerZone(c) == IF c = "c3" THEN "Z2" ELSE "Z1"

\* mass of an ingested item record, in grams (mass_kg has three decimals);
\* D weighs less than a hundredth of a kilogram
ItemMass(i) ==
    CASE i = "A" -> 15
      [] i = "C" -> 20
      [] OTHER   -> 5

\* the latest day, counted from the day the server started, the logical
\* clock is followed to
MaxDate == 31

\* the CSV files an import request can carry: the full manifest, or a
\* later one that lists a single item again
ImportFiles == {<<"A", "C", "D">>, <<"D">>}

\* toTimestamp of a simulate request is a day number; NoTimestamp: absent
NoTimestamp == -1

SimRequest(numOfDays, toTimestamp, itemsToBeUsedPerDay) ==
    [numOfDays |-> numOfDays, toTimestamp |-> toTimestamp,
     itemsToBeUsedPerDay |-> itemsToBeUsedPerDay]

\* the bodies of the simulate requests
SimRequests ==
    {SimRequest(30, NoTimestamp, <<>>),
     SimRequest(-30, NoTimestamp, <<>>),
     SimRequest(1, 30, <<"C", "A">>)}

\* maxWeight of a return-plan request, in grams
MaxWeights == {10, 40}

UndockingContainers == {"c2"}

(***************************************************************************)
(* models/item.py                                                          *)
(***************************************************************************)
NoLocation == [containerId |-> NoContainer, position |-> <<0, 0, 0>>,
               rotation |-> <<0, 0, 0>>]

NewItem(u) == [usageLimit |-> u, isWaste |-> FALSE, currentLocation |-> NoLocation]

get_volume(i) == ItemDims(i)[1] * ItemDims(i)[2] * ItemDims(i)[3]

get_all_rotations(i) ==
    LET w == ItemDims(i)[1]
        d == ItemDims(i)[2]
        h == ItemDims(i)[3]
    IN  << <<w, d, h>>, <<w, h, d>>, <<d, w, h>>,
           <<d, h, w>>, <<h, w, d>>, <<h, d, w>> >>

\* "item.currentLocation is not None and 'containerId' in item.currentLocation"
HasLocation(it) == it.currentLocation.containerId # NoContainer

(***************************************************************************)
(* models/container.py                                                     *)
(***************************************************************************)
Capacity(c) == ContainerDims(c)[1] * ContainerDims(c)[2] * ContainerDims(c)[3]

NewContainer == [items |-> <<>>, occupiedSpace |-> 0]

get_available_space(cont, c) == Capacity(c) - cont.occupiedSpace

\* occupiedSpace >= 0.95 * total_space, in hundredths
is_full(cont, c) == 100 * cont.occupiedSpace >= 95 * Capacity(c)

InSeq(x, s) == \E k \in 1..Len(s) : s[k] = x

RemoveFirst(s, x) ==
    IF ~InSeq(x, s) THEN s
    ELSE LET k == CHOOSE j \in 1..Len(s) :
                      s[j] = x /\ \A m \in 1..(j - 1) : s[m] # x
         IN  SubSeq(s, 1, k - 1) \o SubSeq(s, k + 1, Len(s))

add_item(cont, c, i, volume) ==
    IF volume > get_available_space(cont, c) THEN cont
    ELSE [items |-> IF InSeq(i, cont.items) THEN cont.items
                    ELSE Append(cont.items, i),
          occupiedSpace |-> cont.occupiedSpace + volume]

remove_item(cont, i, volume) ==
    [items |-> RemoveFirst(cont.items, i),
     occupiedSpace |-> IF cont.occupiedSpace - volume > 0
                       THEN cont.occupiedSpace - volume ELSE 0]

(***************************************************************************)
(* utils/space3d.py (Space3D): a space model is the sequence of boxes      *)
(* placed in it so far.                                                    *)
(***************************************************************************)
Box(pos, rot) == [position |-> pos, rotation |-> rot]

EmptySpace == <<>>

RangesOverlap(a, la, b, lb) == a < b + lb /\ b < a + la

BoxesOverlap(b1, b2) ==
    \A k \in 1..3 :
        RangesOverlap(b1.position[k], b1.rotation[k], b2.position[k], b2.rotation[k])

NoPosition == <<-1, -1, -1>>

\* lowest y, then lowest z, then lowest x among the free corners
PosLess(p, q) ==
    \/ p[2] < q[2]
    \/ p[2] = q[2] /\ p[3] < q[3]
    \/ p[2] = q[2] /\ p[3] = q[3] /\ p[1] < q[1]

find_position(space, c, rot) ==
    LET W == ContainerDims(c)[1]
        D == ContainerDims(c)[2]
        H == ContainerDims(c)[3]
        free == {p \in (0..(W - rot[1])) \X (0..(D - rot[2])) \X (0..(H - rot[3])) :
                    \A k \in 1..Len(space) : ~BoxesOverlap(Box(p, rot), space[k])}
    IN  IF free = {} THEN NoPosition
        ELSE CHOOSE p \in free : \A q \in free : q = p \/ PosLess(p, q)

place_item(space, pos, rot) == Append(space, Box(pos, rot))

\* number of other placed boxes over the x-z projection that are not wholly
\* in front of the box
calculate_retrieval_complexity(space, pos, rot) ==
    Cardinality({k \in 1..Len(space) :
        /\ space[k] # Box(pos, rot)
        /\ RangesOverlap(space[k].position[1], space[k].rotation[1], pos[1], rot[1])
        /\ RangesOverlap(space[k].position[3], space[k].rotation[3], pos[3], rot[3])
        /\ space[k].position[2] + space[k].rotation[2] > pos[2]})

(***************************************************************************)
(* services/placement.py: PlacementService.calculate_placement             *)
(***************************************************************************)
\* F applied to the value of v, computed once
With(F(_), v) == CHOOSE r \in {F(x) : x \in {v}} : TRUE

Min(a, b) == IF a < b THEN a ELSE b

Max(a, b) == IF a > b THEN a ELSE b

days_until_expiry(i) ==
    IF ItemExpiryDays(i) = -1 THEN 365 ELSE Max(0, ItemExpiryDays(i))

\* twice get_weighted_score, so that the 0.5 factor stays an integer
get_weighted_score2(i, it) ==
    4 * ItemPriority(i) - 2 * Min(100, days_until_expiry(i)) + Min(100, it.usageLimit)

\* KeyLess with the key (score, -volume): lowest score first
KeyLess_Ascending(its, a, b) ==
    \/ get_weighted_score2(a, its[a]) < get_weighted_score2(b, its[b])
    \/ /\ get_weighted_score2(a, its[a]) = get_weighted_score2(b, its[b])
       /\ get_volume(a) > get_volume(b)

\* sort key (-score, -volume): TRUE when a sorts strictly before b
KeyLess(its, a, b) ==
    \/ get_weighted_score2(a, its[a]) > get_weighted_score2(b, its[b])
    \/ /\ get_weighted_score2(a, its[a]) = get_weighted_score2(b, its[b])
       /\ get_volume(a) > get_volume(b)

RECURSIVE SortByKey(_, _)
\* stable sort of the sequence s of item IDs by the key
SortByKey(its, s) ==
    IF s = <<>> THEN <<>>
    ELSE LET k == CHOOSE j \in 1..Len(s) :
                      /\ \A m \in 1..Len(s) : ~KeyLess(its, s[m], s[j])
                      /\ \A m \in 1..(j - 1) : KeyLess(its, s[j], s[m])
         IN  <<s[k]>> \o SortByKey(its, SubSeq(s, 1, k - 1) \o SubSeq(s, k + 1, Len(s)))

sorted_items(its, order) == SortByKey(its, order)

NoBest == [containerId |-> NoContainer, position |-> NoPosition,
           rotation |-> <<0, 0, 0>>, score |-> 0]

\* the (container, rotation) pairs in the order the two nested loops visit them
TryContainer(k) == ContainerOrder[((k - 1) \div 6) + 1]

TryRotation(i, k) == get_all_rotations(i)[((k - 1) % 6) + 1]

Fits(rot, c) ==
    /\ rot[1] <= ContainerDims(c)[1]
    /\ rot[2] <= ContainerDims(c)[2]
    /\ rot[3] <= ContainerDims(c)[3]

\* one pass of the two nested loops: try k against the best found so far
\* ("if position_score > best_score")
try_one(i, k, best, conts, spaces) ==
    LET c   == TryContainer(k)
        rot == TryRotation(i, k)
    IN  IF is_full(conts[c], c) \/ ~Fits(rot, c) THEN best
        ELSE LET pos == find_position(spaces[c], c, rot)
             IN  IF pos = NoPosition THEN best
                 ELSE LET score ==
                              (IF ContainerZone(c) = ItemZone(i) THEN 1000 ELSE 0)
                              + 5 * ItemPriority(i)
                              - 50 * calculate_retrieval_complexity(spaces[c], pos, rot)
                      IN  IF best.containerId = NoContainer \/ score > best.score
                          THEN [containerId |-> c, position |-> pos,
                                rotation |-> rot, score |-> score]
                          ELSE best

RECURSIVE best_loop(_, _, _, _, _)
best_loop(i, k, best, conts, spaces) ==
    IF k > 6 * Len(ContainerOrder) THEN best
    ELSE best_loop(i, k + 1, try_one(i, k, best, conts, spaces), conts, spaces)

best_placement(i, conts, spaces) ==
    LET best == best_loop(i, 1, NoBest, conts, spaces)
    IN  [containerId |-> best.containerId, position |-> best.position,
         rotation |-> best.rotation]

\* "container_spaces[container_id] = Space3D(width, depth, height)"
NewSpaces == [c \in ContainerIds |-> EmptySpace]

PlaceState(its, conts, spaces, placements) ==
    [items |-> its, containers |-> conts, spaces |-> spaces, placements |-> placements]

\* one iteration of "for item in sorted_items"
place_one(st, i) ==
    IF HasLocation(st.items[i]) THEN st
    ELSE LET best == best_placement(i, st.containers, st.spaces)
             c    == best.containerId
         IN  IF c = NoContainer \/ best.position = NoPosition THEN st
             ELSE PlaceState(
                    [st.items EXCEPT ![i].currentLocation = best],
                    [st.containers EXCEPT ![c] = add_item(@, c, i, get_volume(i))],
                    [st.spaces EXCEPT ![c] = place_item(@, best.position, best.rotation)],
                    Append(st.placements, [itemId |-> i, containerId |-> c,
                                           position |-> best.position,
                                           rotation |-> best.rotation]))

RECURSIVE place_loop(_, _)
place_loop(st, s) ==
    IF s = <<>> THEN st
    ELSE With(LAMBDA next : place_loop(next, Tail(s)), place_one(st, Head(s)))

RECURSIVE SortByPriority(_)
\* sorted(unplaced_items, key=lambda x: -x.priority): stable
SortByPriority(s) ==
    IF s = <<>> THEN <<>>
    ELSE LET k == CHOOSE j \in 1..Len(s) :
                      /\ \A m \in 1..Len(s) : ItemPriority(s[j]) >= ItemPriority(s[m])
                      /\ \A m \in 1..(j - 1) : ItemPriority(s[j]) > ItemPriority(s[m])
         IN  <<s[k]>> \o SortByPriority(SubSeq(s, 1, k - 1) \o SubSeq(s, k + 1, Len(s)))

\* "[:5]"
MaxTargets == 5

high_priority_unplaced(unplaced) ==
    SubSeq(SortByPriority(unplaced), 1, Min(MaxTargets, Len(unplaced)))

RECURSIVE low_priority_candidates(_, _, _, _)
\* the listed items of the preferred zone's containers, from container k on,
\* whose priority is below the target's
low_priority_candidates(target, its, conts, k) ==
    IF k > Len(ContainerOrder) THEN <<>>
    ELSE LET c == ContainerOrder[k]
             here == IF c \notin DOMAIN conts \/ ContainerZone(c) # ItemZone(target)
                     THEN <<>>
                     ELSE LET ids == SelectSeq(conts[c].items,
                                               LAMBDA i : /\ i \in DOMAIN its
                                                          /\ ItemPriority(i) <
                                                                 ItemPriority(target))
                          IN  [j \in 1..Len(ids) |-> [item |-> ids[j], container |-> c]]
         IN  here \o low_priority_candidates(target, its, conts, k + 1)

\* value_density = priority / volume, compared without dividing
DensityLess(a, b) ==
    ItemPriority(a.item) * get_volume(b.item) < ItemPriority(b.item) * get_volume(a.item)

RECURSIVE SortByDensity(_)
\* low_priority_candidates.sort(key=value_density): stable, ascending
SortByDensity(s) ==
    IF s = <<>> THEN <<>>
    ELSE LET k == CHOOSE j \in 1..Len(s) :
                      /\ \A m \in 1..Len(s) : ~DensityLess(s[m], s[j])
                      /\ \A m \in 1..(j - 1) : DensityLess(s[j], s[m])
         IN  <<s[k]>> \o SortByDensity(SubSeq(s, 1, k - 1) \o SubSeq(s, k + 1, Len(s)))

\* the first container outside the preferred zone that is not full and has
\* room for the item, else temporary storage
best_alt_container(i, zone, conts) ==
    LET ok == {k \in 1..Len(ContainerOrder) :
                  /\ ContainerOrder[k] \in DOMAIN conts
                  /\ ContainerZone(ContainerOrder[k]) # zone
                  /\ ~is_full(conts[ContainerOrder[k]], ContainerOrder[k])
                  /\ get_volume(i) <= get_available_space(conts[ContainerOrder[k]],
                                                         ContainerOrder[k])}
    IN  IF ok = {} THEN TEMPORARY_STORAGE
        ELSE ContainerOrder[CHOOSE k \in ok : \A m \in ok : k <= m]

RearrangementStep(n, action, id, from, to) ==
    [step |-> n, action |-> action, itemId |-> id, fromContainer |-> from,
     toContainer |-> to]

RECURSIVE move_candidates(_, _, _, _, _, _)
\* "for candidate in low_priority_candidates": the move steps numbered from
\* n, and the volume moved
move_candidates(cands, zone, conts, target_volume, moved, n) ==
    IF cands = <<>> \/ moved >= target_volume THEN [steps |-> <<>>, moved |-> moved]
    ELSE LET c    == Head(cands)
             rest == move_candidates(Tail(cands), zone, conts, target_volume,
                                     moved + get_volume(c.item), n + 1)
         IN  [steps |-> <<RearrangementStep(n, "move", c.item, c.container,
                                            best_alt_container(c.item, zone, conts))>>
                         \o rest.steps,
              moved |-> rest.moved]

\* the steps one target item adds to the plan, numbered from n
rearrange_target(target, its, conts, n) ==
    LET zone  == ItemZone(target)
        mv    == move_candidates(
                     SortByDensity(low_priority_candidates(target, its, conts, 1)),
                     zone, conts, get_volume(target), 0, n)
        pref  == SelectSeq(ContainerOrder,
                           LAMBDA c : c \in DOMAIN conts /\ ContainerZone(c) = zone)
    IN  mv.steps
        \o (IF mv.moved >= get_volume(target) /\ pref # <<>>
            THEN <<RearrangementStep(n + Len(mv.steps), "place", target, NoContainer,
                                     pref[1])>>
            ELSE <<>>)

RECURSIVE rearrange_loop_Restart(_, _, _, _)
\* rearrange_loop with step_count set back to 1 for every target item
rearrange_loop_Restart(targets, its, conts, n) ==
    IF targets = <<>> THEN <<>>
    ELSE rearrange_target(Head(targets), its, conts, 1)
         \o rearrange_loop_Restart(Tail(targets), its, conts, 1)

RECURSIVE rearrange_loop(_, _, _, _)
\* "for target_item in high_priority_unplaced"
rearrange_loop(targets, its, conts, n) ==
    IF targets = <<>> THEN <<>>
    ELSE LET steps == rearrange_target(Head(targets), its, conts, n)
         IN  steps \o rearrange_loop(Tail(targets), its, conts, n + Len(steps))

_generate_rearrangement_plan(unplaced, its, conts) ==
    rearrange_loop(high_priority_unplaced(unplaced), its, conts, 1)

\* the sorted items that have no location after the placement loop
unplaced_items(st, sorted) ==
    SelectSeq(sorted, LAMBDA i : ~HasLocation(st.items[i]))

calculate_placement(its, order, conts) ==
    With(LAMBDA sorted :
           With(LAMBDA st :
                  [items |-> st.items, containers |-> st.containers,
                   spaces |-> st.spaces, placements |-> st.placements,
                   rearrangements |-> _generate_rearrangement_plan(
                                          unplaced_items(st, sorted),
                                          st.items, st.containers)],
                place_loop(PlaceState(its, conts, NewSpaces, <<>>), sorted)),
         sorted_items(its, order))

(***************************************************************************)
(* services/retrieval.py: RetrievalService                                 *)
(***************************************************************************)
RECURSIVE SelectSeq2(_, _, _)
\* the elements of s that satisfy the set-membership test, in order
SelectSeq2(s, keep, k) ==
    IF k > Len(s) THEN <<>>
    ELSE (IF s[k] \in keep THEN <<s[k]>> ELSE <<>>) \o SelectSeq2(s, keep, k + 1)

\* Locatable without the "container_id not in containers" return
Locatable_NoContainerCheck(id, its, conts) ==
    /\ id \in DOMAIN its
    /\ HasLocation(its[id])

\* the three early returns shared by retrieve_item and get_retrieval_path
Locatable(id, its, conts) ==
    /\ id \in DOMAIN its
    /\ HasLocation(its[id])
    /\ its[id].currentLocation.containerId \in DOMAIN conts

\* container_items: the other items located in the target's container, in
\* the iteration order of the items dictionary
ContainerItems(target, its, order) ==
    SelectSeq2(order,
               {o \in DOMAIN its : /\ o # target
                                   /\ HasLocation(its[o])
                                   /\ its[o].currentLocation.containerId =
                                          its[target].currentLocation.containerId},
               1)

RECURSIVE PlaceAll(_, _, _)
\* the local space model holding every other item of the container
PlaceAll(its, s, space) ==
    IF s = <<>> THEN space
    ELSE PlaceAll(its, Tail(s),
                  place_item(space, its[Head(s)].currentLocation.position,
                             its[Head(s)].currentLocation.rotation))

\* Blocks with "if other_y <= y: continue"
Blocks_StrictlyForward(otherLoc, loc) ==
    /\ ~(otherLoc.position[2] <= loc.position[2])
    /\ RangesOverlap(otherLoc.position[1], otherLoc.rotation[1],
                     loc.position[1], loc.rotation[1])
    /\ RangesOverlap(otherLoc.position[3], otherLoc.rotation[3],
                     loc.position[3], loc.rotation[3])

\* "if other_y < y: continue", then the x and z overlap tests
Blocks(otherLoc, loc) ==
    /\ ~(otherLoc.position[2] < loc.position[2])
    /\ RangesOverlap(otherLoc.position[1], otherLoc.rotation[1],
                     loc.position[1], loc.rotation[1])
    /\ RangesOverlap(otherLoc.position[3], otherLoc.rotation[3],
                     loc.position[3], loc.rotation[3])

BlockingDepth(o, target, its, order) ==
    calculate_retrieval_complexity(
        PlaceAll(its, ContainerItems(target, its, order), EmptySpace),
        its[o].currentLocation.position, its[o].currentLocation.rotation)

RECURSIVE SortByDepth(_, _, _, _)
\* blocked_by.sort(key=depth): stable, ascending
SortByDepth(s, target, its, order) ==
    IF s = <<>> THEN <<>>
    ELSE LET dep(o) == BlockingDepth(o, target, its, order)
             k == CHOOSE j \in 1..Len(s) :
                      /\ \A m \in 1..Len(s) : dep(s[j]) <= dep(s[m])
                      /\ \A m \in 1..(j - 1) : dep(s[j]) < dep(s[m])
         IN  <<s[k]>> \o SortByDepth(SubSeq(s, 1, k - 1) \o SubSeq(s, k + 1, Len(s)),
                                     target, its, order)

\* _calculate_retrieval_complexity: the blocking item IDs, nearest first
blocked_by(target, its, order) ==
    LET others == ContainerItems(target, its, order)
        hit    == {o \in DOMAIN its : /\ InSeq(o, others)
                                      /\ Blocks(its[o].currentLocation,
                                                its[target].currentLocation)}
    IN  SortByDepth(SelectSeq2(others, hit, 1), target, its, order)

Step(n, action, id, from, to) ==
    [step |-> n, action |-> action, itemId |-> id, fromContainer |-> from,
     toContainer |-> to]

\* available_containers: the cached free space of the other containers
AvailableContainers(origin, conts) ==
    [c \in {d \in DOMAIN conts : d # origin /\ get_available_space(conts[d], d) > 0}
        |-> get_available_space(conts[c], c)]

\* the first container, in dictionary order, with room and in the origin's zone
best_temp_container(b, origin, avail) ==
    LET ok == {k \in 1..Len(ContainerOrder) :
                  /\ ContainerOrder[k] \in DOMAIN avail
                  /\ avail[ContainerOrder[k]] >= get_volume(b)
                  /\ ContainerZone(ContainerOrder[k]) = ContainerZone(origin)}
    IN  IF ok = {} THEN TEMPORARY_STORAGE
        ELSE ContainerOrder[CHOOSE k \in ok : \A m \in ok : k <= m]

RECURSIVE MoveAside(_, _, _, _)
\* "for blocking_item_info in blocked_by": the move steps, numbered from n
MoveAside(bs, origin, avail, n) ==
    IF bs = <<>> THEN <<>>
    ELSE LET b    == Head(bs)
             dest == best_temp_container(b, origin, avail)
             next == IF dest = TEMPORARY_STORAGE THEN avail
                     ELSE [avail EXCEPT ![dest] = @ - get_volume(b)]
         IN  <<Step(n, "move", b, origin, dest)>>
             \o MoveAside(Tail(bs), origin, next, n + 1)

RECURSIVE Perms(_)
\* every sequence that lists each element of the set once
Perms(S) ==
    IF S = {} THEN {<<>>}
    ELSE UNION {{<<x>> \o p : p \in Perms(S \ {x})} : x \in S}

\* moved_to_temp, a set of (item, container) pairs
moved_to_temp(moves) == {<<moves[k].itemId, moves[k].toContainer>> : k \in 1..Len(moves)}

\* MoveBack that skips the first pair of the listing
MoveBack_SkipFirst(back, origin, n) ==
    [k \in 1..(Len(back) - 1) |->
        Step(n + k - 1, "move", back[k + 1][1], back[k + 1][2], origin)]

\* "for blocking_id, temp_container in reversed(list(moved_to_temp))": a set
\* has no defined iteration order, so back is any listing of its pairs
MoveBack(back, origin, n) ==
    [k \in 1..Len(back) |-> Step(n + k - 1, "move", back[k][1], back[k][2], origin)]

_generate_optimized_retrieval_steps(target, its, order, conts, back) ==
    LET origin == its[target].currentLocation.containerId
        bs     == blocked_by(target, its, order)
        moves  == MoveAside(bs, origin, AvailableContainers(origin, conts), 1)
    IN  moves
        \o <<Step(Len(moves) + 1, "retrieve", target, origin, NoContainer)>>
        \o MoveBack(back, origin, Len(moves) + 2)

\* the listings the restore loop can iterate over
BackOrders(target, its, order, conts) ==
    LET origin == its[target].currentLocation.containerId
    IN  Perms(moved_to_temp(MoveAside(blocked_by(target, its, order), origin,
                                      AvailableContainers(origin, conts), 1)))

\* retrieved without the "if item.usageLimit > 0" guard
retrieved_Unguarded(it) ==
    [usageLimit |-> it.usageLimit - 1,
     isWaste |-> IF it.usageLimit - 1 = 0 THEN TRUE ELSE it.isWaste,
     currentLocation |-> NoLocation]

\* the item after lines 160-173 of retrieve_item
retrieved(it) ==
    [usageLimit |-> IF it.usageLimit > 0 THEN it.usageLimit - 1 ELSE it.usageLimit,
     isWaste |-> IF it.usageLimit > 0 /\ it.usageLimit - 1 = 0 THEN TRUE ELSE it.isWaste,
     currentLocation |-> NoLocation]

\* the stores after retrieve_item
retrieve_item_items(id, its) == [its EXCEPT ![id] = retrieved(@)]

retrieve_item_containers(id, its, conts) ==
    [conts EXCEPT ![its[id].currentLocation.containerId] =
                      remove_item(@, id, get_volume(id))]

\* get_retrieval_path that updates the usage count as retrieve_item does
get_retrieval_path_items_Consuming(id, its) ==
    [its EXCEPT ![id].usageLimit = IF @ > 0 THEN @ - 1 ELSE @]

\* the stores after get_retrieval_path
get_retrieval_path_items(id, its) == its

get_retrieval_path_containers(id, its, conts) == conts

(***************************************************************************)
(* services/waste.py: WasteService.complete_undocking                      *)
(***************************************************************************)
\* undock_one without the call of container.remove_item
undock_one_KeepListed(st, id) ==
    IF id \notin DOMAIN st.items THEN st
    ELSE [items |-> [st.items EXCEPT ![id].currentLocation = NoLocation],
          containers |-> st.containers]

\* one iteration of "for item_id in removed_item_ids"
undock_one(st, id) ==
    IF id \notin DOMAIN st.items THEN st
    ELSE LET loc == st.items[id].currentLocation
         IN  [items |-> [st.items EXCEPT ![id].currentLocation = NoLocation],
              containers |->
                  IF HasLocation(st.items[id]) /\ loc.containerId \in DOMAIN st.containers
                  THEN [st.containers EXCEPT ![loc.containerId] =
                                                 remove_item(@, id, get_volume(id))]
                  ELSE st.containers]

RECURSIVE undock_loop(_, _)
undock_loop(st, ids) ==
    IF ids = {} THEN st
    ELSE LET id == CHOOSE x \in ids : TRUE
         IN  undock_loop(undock_one(st, id), ids \ {id})

\* "if step.action in ['move', 'remove', 'place']: removed_item_ids.add"
removed_item_ids(plan_steps) ==
    {plan_steps[k].itemId :
        k \in {j \in 1..Len(plan_steps) :
                  plan_steps[j].action \in {"move", "remove", "place"}}}

complete_undocking(plan_steps, its, conts) ==
    undock_loop([items |-> its, containers |-> conts], removed_item_ids(plan_steps))

(***************************************************************************)
(* services/simulation.py and the simulate route of app.py                 *)
(***************************************************************************)
Reason(text, n) == [text |-> text, n |-> n]

\* WasteItem(itemId, reason, containerId, position); name and mass are the
\* catalogue's
WasteItem(id, reason, loc) ==
    [itemId |-> id, reason |-> reason, containerId |-> loc.containerId,
     position |-> loc.position]

\* "item.expiryDate != 'N/A'" and datetime.fromisoformat succeeds
HasExpiry(i) == ItemExpiryDays(i) # -1

\* the test of simulate_days with "expiry_date < new_date"
expires_during_Strict(i, it, current_date, new_date) ==
    /\ ~it.isWaste
    /\ HasExpiry(i)
    /\ ItemExpiryDays(i) < new_date /\ ItemExpiryDays(i) > current_date

\* "if expiry_date <= new_date and expiry_date > current_date", for an item
\* that is not waste yet
expires_during(i, it, current_date, new_date) ==
    /\ ~it.isWaste
    /\ HasExpiry(i)
    /\ ItemExpiryDays(i) <= new_date /\ ItemExpiryDays(i) > current_date

\* SimulationService.simulate_days: the updated items and the waste list, in
\* the iteration order of the items dictionary
simulate_days(num_days, current_date, its, order) ==
    LET new_date == current_date + num_days
        hit      == {i \in DOMAIN its : expires_during(i, its[i], current_date, new_date)}
        ids      == SelectSeq2(order, hit, 1)
    IN  [new_date |-> new_date,
         items |-> [i \in DOMAIN its |->
                       IF i \in hit THEN [its[i] EXCEPT !.isWaste = TRUE] ELSE its[i]],
         waste_items |-> [k \in 1..Len(ids) |->
                             WasteItem(ids[k], Reason("Expired", 0),
                                       its[ids[k]].currentLocation)]]

\* one iteration of "for item_id in items_to_use": data are the Item objects,
\* list the records read from the items file
use_one(st, id) ==
    IF id \in DOMAIN st.data /\ st.data[id].usageLimit > 0
    THEN LET u == st.data[id].usageLimit - 1
         IN  [data |-> [st.data EXCEPT ![id].usageLimit = u],
              list |-> [st.list EXCEPT ![id].usageLimit = u,
                                       ![id].isWaste = IF u <= 0 THEN TRUE ELSE @]]
    ELSE st

RECURSIVE use_loop(_, _)
use_loop(st, batch) ==
    IF batch = <<>> THEN st ELSE use_loop(use_one(st, Head(batch)), Tail(batch))

\* "days = (target_date - CURRENT_DATE).days; days = max(1, days)"
days_of_request(num_days, to_timestamp, current_date) ==
    IF to_timestamp # NoTimestamp THEN Max(1, to_timestamp - current_date)
    ELSE num_days

\* the records written back to the items file: "items_list[i]['isWaste'] =
\* item.isWaste" for every item the service returned
simulate_saved(list, updated) ==
    [i \in DOMAIN list |->
        IF i \in DOMAIN updated THEN [list[i] EXCEPT !.isWaste = updated[i].isWaste]
        ELSE list[i]]

\* the waste records of the response with the given reason
with_reason(ws, text) ==
    SelectSeq(ws, LAMBDA w : w.reason.text = text)

(***************************************************************************)
(* services/waste.py: identify_waste_items                                 *)
(***************************************************************************)
NoReason == Reason("", 0)

\* the branch of the if / elif chain an item takes: its reason, or NoReason
\* when the item is not waste
waste_reason(i, it, current_date) ==
    LET days == ItemExpiryDays(i) - current_date
    IN  IF it.isWaste
        THEN (IF it.usageLimit <= 0 THEN Reason("Out of Uses", 0)
              ELSE IF HasExpiry(i) /\ days <= 0 THEN Reason("Expired", 0)
              ELSE Reason("Manually Marked", 0))
        ELSE IF HasExpiry(i)
        THEN (IF days <= 0 THEN Reason("Expired", 0)
              ELSE IF days <= 5 THEN Reason("Expires in", days)
              ELSE NoReason)
        ELSE IF it.usageLimit <= 0 THEN Reason("Out of Uses", 0)
        ELSE IF it.usageLimit <= 3 THEN Reason("Only uses remaining", it.usageLimit)
        ELSE NoReason

\* 1500 * get_urgency_score, so that priority / 3 and mass * 2 stay integers
get_urgency_score1500(w) ==
    (CASE w.reason.text \in {"Expired", "Out of Uses"} -> 150000
       [] w.reason.text = "Expires in" -> 1500 * (100 - w.reason.n * 10)
       [] w.reason.text = "Only uses remaining" -> 1500 * (50 - w.reason.n * 10)
       [] OTHER -> 0)
    - Min(45000, 500 * ItemPriority(w.itemId))
    + Min(30000, 3 * ItemMass(w.itemId))

RECURSIVE _sort_waste_by_urgency(_)
\* sorted(waste_items, key=get_urgency_score, reverse=True): stable, highest
\* score first
_sort_waste_by_urgency(ws) ==
    IF ws = <<>> THEN <<>>
    ELSE LET k == CHOOSE j \in 1..Len(ws) :
                      /\ \A m \in 1..Len(ws) :
                            get_urgency_score1500(ws[j]) >= get_urgency_score1500(ws[m])
                      /\ \A m \in 1..(j - 1) :
                            get_urgency_score1500(ws[j]) > get_urgency_score1500(ws[m])
         IN  <<ws[k]>> \o _sort_waste_by_urgency(SubSeq(ws, 1, k - 1)
                                                  \o SubSeq(ws, k + 1, Len(ws)))

\* sort key (y, -z, x) of a waste record: TRUE when a sorts strictly before b
PositionLess(a, b) ==
    \/ a.position[2] < b.position[2]
    \/ a.position[2] = b.position[2] /\ a.position[3] > b.position[3]
    \/ /\ a.position[2] = b.position[2] /\ a.position[3] = b.position[3]
       /\ a.position[1] < b.position[1]

RECURSIVE SortByPosition(_)
SortByPosition(ws) ==
    IF ws = <<>> THEN <<>>
    ELSE LET k == CHOOSE j \in 1..Len(ws) :
                      /\ \A m \in 1..Len(ws) : ~PositionLess(ws[m], ws[j])
                      /\ \A m \in 1..(j - 1) : PositionLess(ws[j], ws[m])
         IN  <<ws[k]>> \o SortByPosition(SubSeq(ws, 1, k - 1)
                                           \o SubSeq(ws, k + 1, Len(ws)))

RECURSIVE container_keys(_, _)
\* the keys of the container_items dictionary, in insertion order
container_keys(ws, seen) ==
    IF ws = <<>> THEN <<>>
    ELSE LET c == Head(ws).containerId
         IN  IF c = NoContainer \/ c \in seen THEN container_keys(Tail(ws), seen)
             ELSE <<c>> \o container_keys(Tail(ws), seen \cup {c})

\* container_items[c]: the waste records of container c, in list order
container_items(ws, c) == SelectSeq(ws, LAMBDA w : w.containerId = c)

WasteReturnStep(n, action, id, from, to) ==
    [step |-> n, action |-> action, itemId |-> id, fromContainer |-> from,
     toContainer |-> to]

RECURSIVE Renumber(_, _)
\* the steps with "step=step_count; step_count += 1" applied from n on
Renumber(steps, n) ==
    IF steps = <<>> THEN <<>>
    ELSE <<[Head(steps) EXCEPT !.step = n]>> \o Renumber(Tail(steps), n + 1)

RECURSIVE Flatten(_)
Flatten(ss) == IF ss = <<>> THEN <<>> ELSE Head(ss) \o Flatten(Tail(ss))

\* _generate_optimized_waste_return_steps: one remove step per waste record,
\* container by container, then the records without a container
_generate_optimized_waste_return_steps(ws) ==
    LET keys   == container_keys(ws, {})
        groups == [k \in 1..Len(keys) |->
                      LET g == SortByPosition(container_items(ws, keys[k]))
                      IN  [j \in 1..Len(g) |->
                              WasteReturnStep(0, "remove", g[j].itemId, keys[k],
                                              NoContainer)]]
        loose  == SelectSeq(ws, LAMBDA w : w.containerId = NoContainer)
    IN  Renumber(Flatten(groups)
                 \o [j \in 1..Len(loose) |->
                        WasteReturnStep(0, "remove", loose[j].itemId, NoContainer,
                                        NoContainer)],
                 1)

\* identify_waste_items: the items with their flags set, the sorted waste
\* list and the return steps
identify_waste_items(its, order, current_date) ==
    LET hit == {i \in DOMAIN its : waste_reason(i, its[i], current_date) # NoReason}
        ids == SelectSeq2(order, hit, 1)
    IN  With(LAMBDA ws :
               [items |-> [i \in DOMAIN its |->
                              IF i \in hit THEN [its[i] EXCEPT !.isWaste = TRUE]
                              ELSE its[i]],
                waste_items |-> ws,
                return_steps |-> _generate_optimized_waste_return_steps(ws)],
             _sort_waste_by_urgency(
                 [k \in 1..Len(ids) |->
                     WasteItem(ids[k], waste_reason(ids[k], its[ids[k]], current_date),
                               its[ids[k]].currentLocation)]))

(***************************************************************************)
(* services/waste.py: generate_waste_return_plan.  Masses and max_weight   *)
(* are in grams; the code's floats are kilograms.                          *)
(***************************************************************************)
SCALE_FACTOR == 100

\* int(kilograms * SCALE_FACTOR) of a mass given in grams: the fraction of a
\* hundredth of a kilogram is cut off
scaled(grams) == (grams * SCALE_FACTOR) \div 1000

\* 5000 * len(waste_items) * item_values[item], for the item at 0-based
\* index i of n: urgency_value * 0.7 + mass_value * 0.3
item_value(i, n, id) ==
    35000 * (Max(1, n) - i) + Max(1, n) * Min(15000, 3 * ItemMass(id))

\* the dp and selected_items tables before the first item
EmptyTable(W) == [w \in 0..W |-> [value |-> 0, selected |-> {}]]

\* "for w in range(scaled_max_weight, scaled_mass - 1, -1)": cell w reads
\* cell w - scaled_mass, which this pass has not written yet
fill_one(table, W, id, value) ==
    LET m == scaled(ItemMass(id))
    IN  IF m <= 0 THEN table
        ELSE [w \in 0..W |->
                 IF w >= m /\ table[w - m].value + value > table[w].value
                 THEN [value |-> table[w - m].value + value,
                       selected |-> table[w - m].selected \cup {id}]
                 ELSE table[w]]

RECURSIVE fill_loop(_, _, _, _)
\* "for item in waste_items", from index k on
fill_loop(table, W, ws, k) ==
    IF k > Len(ws) THEN table
    ELSE With(LAMBDA next : fill_loop(next, W, ws, k + 1),
              fill_one(table, W, ws[k].itemId, item_value(k - 1, Len(ws), ws[k].itemId)))

RECURSIVE max_value_weight(_, _)
\* "while max_value_weight > 0 and not selected_items[max_value_weight]"
max_value_weight(table, w) ==
    IF w > 0 /\ table[w].selected = {} THEN max_value_weight(table, w - 1) ELSE w

\* final_selected_items
final_selected_items(ws, max_weight) ==
    LET W == scaled(max_weight)
    IN  With(LAMBDA table : table[max_value_weight(table, W)].selected,
             fill_loop(EmptyTable(W), W, ws, 1))

\* the selected records that have no container: final_selected_items is a
\* set, so the loop over it can list them in any order
loose_selected(ws, sel) ==
    {w.itemId : w \in {ws[k] : k \in {j \in 1..Len(ws) :
                                         /\ ws[j].itemId \in sel
                                         /\ ws[j].containerId = NoContainer}}}

\* remove_then_place with the two steps in the other order
remove_then_place_Swapped(w, c, undock) ==
    <<WasteReturnStep(0, "place", w.itemId, NoContainer, undock),
      WasteReturnStep(0, "remove", w.itemId, c, NoContainer)>>

\* the remove and place steps of one selected record of container c
remove_then_place(w, c, undock) ==
    <<WasteReturnStep(0, "remove", w.itemId, c, NoContainer),
      WasteReturnStep(0, "place", w.itemId, NoContainer, undock)>>

\* generate_waste_return_plan; loose is the order in which the last loop
\* visits the selected records without a container
generate_waste_return_plan(ws, max_weight, undock, loose) ==
    IF ws = <<>> THEN <<>>
    ELSE With(LAMBDA sel :
           LET keys   == container_keys(ws, {})
               groups == [k \in 1..Len(keys) |->
                             LET g == SortByPosition(
                                          SelectSeq(container_items(ws, keys[k]),
                                                    LAMBDA w : w.itemId \in sel))
                             IN  Flatten([j \in 1..Len(g) |->
                                             remove_then_place(g[j], keys[k], undock)])]
           IN  Renumber(Flatten(groups)
                        \o [j \in 1..Len(loose) |->
                               WasteReturnStep(0, "place", loose[j], NoContainer, undock)],
                        1),
           final_selected_items(ws, max_weight))

\* the orders the last loop can take
LooseOrders(ws, max_weight) ==
    Perms(loose_selected(ws, final_selected_items(ws, max_weight)))

(***************************************************************************)
(* The state machine                                                       *)
(***************************************************************************)
\* what the last call was given and what it returned
Result(op, id, cs, ok, steps, placements) ==
    [op |-> op, itemId |-> id, containers |-> cs, ok |-> ok, steps |-> steps,
     placements |-> placements, wasteItems |-> <<>>, usageDepletedItems |-> <<>>,
     returnSteps |-> <<>>, itemsUsed |-> <<>>, oldDate |-> 0, newDate |-> 0,
     maxWeight |-> 0]

Restrict(f, S) == [x \in (DOMAIN f) \cap S |-> f[x]]

\* the values of g where it is defined, those of f elsewhere
Overlay(f, g) == [x \in DOMAIN f |-> IF x \in DOMAIN g THEN g[x] ELSE f[x]]

\* the request threads of the server
Slots == {1, 2}

Stores(its, order, conts, date) ==
    [items |-> its, order |-> order, containers |-> conts, date |-> date]

\* the body of a retrieve or simulate request
Request(op, id, body) == [op |-> op, itemId |-> id, body |-> body]

\* a thread that handles no request
Idle ==
    [phase |-> "idle",
     req |-> Request("none", NoContainer, SimRequest(0, NoTimestamp, <<>>)),
     stores |-> Stores(<<>>, <<>>, <<>>, 0)]

\* the stores of a freshly started station whose containers are registered
Init ==
    /\ items = [x \in {} |-> NewItem(0)]
    /\ itemOrder = <<>>
    /\ containers = [c \in ContainerIds |-> NewContainer]
    /\ result = Result("none", NoContainer, {}, FALSE, <<>>, <<>>)
    /\ CURRENT_DATE = 0
    /\ requests = [s \in Slots |-> Idle]

\* a record with a new ID arrives and is appended to the store
Ingest(i) ==
    /\ i \notin DOMAIN items
    /\ items' = [x \in (DOMAIN items) \cup {i} |->
                     IF x = i THEN NewItem(ItemUsage(i)) ELSE items[x]]
    /\ itemOrder' = Append(itemOrder, i)
    /\ result' = Result("ingest", i, {}, TRUE, <<>>, <<>>)
    /\ UNCHANGED <<containers, CURRENT_DATE, requests>>

CalculatePlacement ==
    \E st \in {calculate_placement(items, itemOrder, containers)} :
        /\ items' = st.items
        /\ containers' = st.containers
        /\ result' = Result("calculate_placement", NoContainer, ContainerIds, TRUE,
                            st.rearrangements, st.placements)
        /\ UNCHANGED <<itemOrder, CURRENT_DATE, requests>>

\* retrieve_item(id, ..., items, containers restricted to cs)
RetrieveItem(id, cs) ==
    LET conts == Restrict(containers, cs)
    IN  IF Locatable(id, items, conts)
        THEN \E back \in BackOrders(id, items, itemOrder, conts) :
                /\ items' = retrieve_item_items(id, items)
                /\ containers' = Overlay(containers,
                                         retrieve_item_containers(id, items, conts))
                /\ result' = Result("retrieve_item", id, cs, TRUE,
                                    _generate_optimized_retrieval_steps(
                                        id, items, itemOrder, conts, back),
                                    <<>>)
                /\ UNCHANGED <<itemOrder, CURRENT_DATE, requests>>
        ELSE /\ result' = Result("retrieve_item", id, cs, FALSE, <<>>, <<>>)
             /\ UNCHANGED <<items, itemOrder, containers, CURRENT_DATE, requests>>

\* get_retrieval_path(id, items, containers restricted to cs)
GetRetrievalPath(id, cs) ==
    LET conts == Restrict(containers, cs)
    IN  IF Locatable(id, items, conts)
        THEN \E back \in BackOrders(id, items, itemOrder, conts) :
                /\ items' = get_retrieval_path_items(id, items)
                /\ containers' = Overlay(containers,
                                         get_retrieval_path_containers(id, items, conts))
                /\ result' = Result("get_retrieval_path", id, cs, TRUE,
                                    _generate_optimized_retrieval_steps(
                                        id, items, itemOrder, conts, back),
                                    <<>>)
                /\ UNCHANGED <<itemOrder, CURRENT_DATE, requests>>
        ELSE /\ result' = Result("get_retrieval_path", id, cs, FALSE, <<>>, <<>>)
             /\ UNCHANGED <<items, itemOrder, containers, CURRENT_DATE, requests>>

\* complete_undocking(waste_items, plan_steps, items, containers)
CompleteUndocking(plan_steps) ==
    LET st == complete_undocking(plan_steps, items, containers)
    IN  /\ items' = st.items
        /\ containers' = st.containers
        /\ result' = Result("complete_undocking", NoContainer, ContainerIds, TRUE,
                            plan_steps, <<>>)
        /\ UNCHANGED <<itemOrder, CURRENT_DATE, requests>>

\* the container dictionaries a caller passes: all of them, or all but c2
ContainerArgs == {ContainerIds, ContainerIds \ {"c2"}}

\* the sets of item IDs a plan of at most MaxPlanItems items mentions
PlanItemSets == {ids \in SUBSET ItemIds : Cardinality(ids) <= MaxPlanItems}

\* a plan over the IDs ids: a remove and a place step for each when action
\* is "remove", else one step of the given action for each
undock_plan(ids, action) ==
    LET s == SelectSeq(<<"A", "C", "D">>, LAMBDA i : i \in ids)
    IN  Renumber(Flatten([k \in 1..Len(s) |->
                    IF action = "remove"
                    THEN <<WasteReturnStep(0, "remove", s[k], NoContainer, NoContainer),
                           WasteReturnStep(0, "place", s[k], NoContainer, "c2")>>
                    ELSE <<WasteReturnStep(0, action, s[k], NoContainer, NoContainer)>>]),
                 1)

\* the plans a caller passes to complete_undocking
UndockPlans == {undock_plan(ids, a) : ids \in PlanItemSets, a \in {"remove", "retrieve"}}

Next ==
    \/ \E i \in ItemIds : Ingest(i)
    \/ CalculatePlacement
    \/ \E id \in ItemIds, cs \in ContainerArgs : RetrieveItem(id, cs)
    \/ \E id \in ItemIds, cs \in ContainerArgs : GetRetrievalPath(id, cs)
    \/ \E plan \in UndockPlans : CompleteUndocking(plan)

Spec == Init /\ [][Next]_vars

(***************************************************************************)
(* The station: the stores behind the import, simulate and waste routes of *)
(* app.py, together with the services above                                *)
(***************************************************************************)
RECURSIVE import_rows(_, _)
\* "for row in csv_reader": a row replaces the stored record of its ID or is
\* appended
import_rows(st, rows) ==
    IF rows = <<>> THEN st
    ELSE LET i == Head(rows)
         IN  import_rows(
                 [items |-> [x \in (DOMAIN st.items) \cup {i} |->
                                IF x = i THEN NewItem(ItemUsage(i)) ELSE st.items[x]],
                  order |-> IF i \in DOMAIN st.items THEN st.order
                            ELSE Append(st.order, i)],
                 Tail(rows))

\* POST /api/items/import
ImportItems(rows) ==
    LET st == import_rows([items |-> items, order |-> itemOrder], rows)
    IN  /\ items' = st.items
        /\ itemOrder' = st.order
        /\ result' = Result("import_items", NoContainer, {}, TRUE, <<>>, <<>>)
        /\ UNCHANGED <<containers, CURRENT_DATE, requests>>

\* POST /api/simulate/day
SimulateDays(num_days, to_timestamp, batch) ==
    \E used \in {use_loop([data |-> items, list |-> items], batch)} :
    \E sim \in {simulate_days(days_of_request(num_days, to_timestamp, CURRENT_DATE),
                               CURRENT_DATE, used.data, itemOrder)} :
        /\ sim.new_date \in 0..MaxDate
        /\ CURRENT_DATE' = sim.new_date
        /\ items' = simulate_saved(used.list, sim.items)
        /\ result' = [Result("simulate_days", NoContainer, {}, TRUE, <<>>, <<>>)
                         EXCEPT !.wasteItems = with_reason(sim.waste_items, "Expired"),
                                !.usageDepletedItems =
                                    with_reason(sim.waste_items, "Out of Uses"),
                                !.itemsUsed = batch,
                                !.oldDate = CURRENT_DATE,
                                !.newDate = sim.new_date]
        /\ UNCHANGED <<itemOrder, containers, requests>>

\* GET /api/waste/identify
IdentifyWaste ==
    \E iw \in {identify_waste_items(items, itemOrder, CURRENT_DATE)} :
        /\ items' = [i \in DOMAIN items |->
                        IF \E k \in 1..Len(iw.waste_items) : iw.waste_items[k].itemId = i
                        THEN [items[i] EXCEPT !.isWaste = TRUE] ELSE items[i]]
        /\ result' = [Result("identify_waste", NoContainer, {}, TRUE, <<>>, <<>>)
                         EXCEPT !.wasteItems = iw.waste_items,
                                !.returnSteps = iw.return_steps]
        /\ UNCHANGED <<itemOrder, containers, CURRENT_DATE, requests>>

\* POST /api/waste/return-plan: the plan is computed on objects loaded from
\* the files and nothing is saved
WasteReturnPlan(max_weight, undock) ==
    \E iw \in {identify_waste_items(items, itemOrder, CURRENT_DATE)} :
        \E loose \in LooseOrders(iw.waste_items, max_weight) :
            /\ result' = [Result("waste_return_plan", undock, {}, TRUE,
                                 generate_waste_return_plan(iw.waste_items, max_weight,
                                                            undock, loose),
                                 <<>>)
                             EXCEPT !.wasteItems = iw.waste_items,
                                    !.maxWeight = max_weight]
            /\ UNCHANGED <<items, itemOrder, containers, CURRENT_DATE, requests>>

RECURSIVE remove_waste_loop(_, _, _)
\* "for waste_item in waste_items" of the complete-undocking route: an item
\* whose containerId is the undocking container is taken off that container's
\* list, and its volume off the occupied space, when the list holds it
remove_waste_loop(conts, ws, undock) ==
    IF ws = <<>> THEN conts
    ELSE LET w == Head(ws)
         IN  remove_waste_loop(
                 IF /\ w.containerId = undock
                    /\ undock \in DOMAIN conts
                    /\ InSeq(w.itemId, conts[undock].items)
                 THEN [conts EXCEPT ![undock] =
                          remove_item(@, w.itemId, get_volume(w.itemId))]
                 ELSE conts,
                 Tail(ws), undock)

\* the items_to_remove of the complete-undocking route
items_to_remove(ws, undock) ==
    {ws[k].itemId : k \in {j \in 1..Len(ws) : ws[j].containerId = undock}}

\* POST /api/waste/complete-undocking: the flags set by identify_waste_items
\* stay on the loaded objects; the records of the removed items are dropped
ApiCompleteUndocking(undock) ==
    \E iw \in {identify_waste_items(items, itemOrder, CURRENT_DATE)} :
    \E gone \in {items_to_remove(iw.waste_items, undock)} :
        /\ items' = [i \in (DOMAIN items) \ gone |-> items[i]]
        /\ itemOrder' = SelectSeq(itemOrder, LAMBDA i : i \notin gone)
        /\ containers' = remove_waste_loop(containers, iw.waste_items, undock)
        /\ result' = [Result("api_complete_undocking", undock, {}, TRUE, <<>>, <<>>)
                         EXCEPT !.wasteItems = iw.waste_items]
        /\ UNCHANGED <<CURRENT_DATE, requests>>

StationNext ==
    \/ \E u \in UndockingContainers : ApiCompleteUndocking(u)
    \/ \E rows \in ImportFiles : ImportItems(rows)
    \/ CalculatePlacement
    \/ \E id \in ItemIds : RetrieveItem(id, ContainerIds)
    \/ \E r \in SimRequests :
          SimulateDays(r.numOfDays, r.toTimestamp, r.itemsToBeUsedPerDay)
    \/ IdentifyWaste
    \/ \E m \in MaxWeights, u \in UndockingContainers : WasteReturnPlan(m, u)

StationSpec == Init /\ [][StationNext]_vars

(***************************************************************************)
(* Requests handled by concurrent threads: a route handler loads the JSON  *)
(* files, works on its own objects and writes the files back, and no lock  *)
(* is held in between                                                      *)
(***************************************************************************)
\* the stores a handler that loaded the stores "loaded" leaves behind when
\* it saves on top of the stores "current"
handle(req, loaded, current) ==
    IF req.op = "retrieve"
    THEN IF Locatable(req.itemId, loaded.items, loaded.containers)
         THEN Stores(retrieve_item_items(req.itemId, loaded.items),
                     loaded.order,
                     Overlay(current.containers,
                             retrieve_item_containers(req.itemId, loaded.items,
                                                      loaded.containers)),
                     current.date)
         ELSE current
    ELSE With(LAMBDA used :
                With(LAMBDA sim :
                       Stores(simulate_saved(used.list, sim.items), loaded.order,
                              current.containers, sim.new_date),
                     simulate_days(days_of_request(req.body.numOfDays,
                                                   req.body.toTimestamp, current.date),
                                   current.date, used.data, loaded.order)),
              use_loop([data |-> loaded.items, list |-> loaded.items],
                       req.body.itemsToBeUsedPerDay))

\* the handler run from its first line to its last with no other request
\* in between
handle_alone(req, st) == handle(req, st, st)

\* a thread reads the files at the top of a handler; the second thread is
\* taken only when the first is in use
LoadStores(s, req) ==
    /\ requests[s].phase = "idle"
    /\ s = 2 => requests[1].phase # "idle"
    /\ requests' = [requests EXCEPT ![s] =
                       [phase |-> "loaded", req |-> req,
                        stores |-> Stores(items, itemOrder, containers, CURRENT_DATE)]]
    /\ UNCHANGED <<items, itemOrder, containers, result, CURRENT_DATE>>

\* the rest of the handler: the service call on the loaded objects and the
\* writes of the files
SaveStores(s, op) ==
    /\ requests[s].phase = "loaded"
    /\ requests[s].req.op = op
    /\ \E st \in {handle(requests[s].req, requests[s].stores,
                         Stores(items, itemOrder, containers, CURRENT_DATE))} :
          /\ st.date \in 0..MaxDate
          /\ items' = st.items
          /\ itemOrder' = st.order
          /\ containers' = st.containers
          /\ CURRENT_DATE' = st.date
    /\ result' = Result(op, requests[s].req.itemId, ContainerIds, TRUE, <<>>, <<>>)
    /\ requests' = [requests EXCEPT ![s].phase = "done"]

\* POST /api/items/retrieve, first and second part
RetrieveLoad(s, id) == LoadStores(s, Request("retrieve", id, Idle.req.body))

RetrieveSave(s) == SaveStores(s, "retrieve")

\* POST /api/simulate/day, first and second part
SimulateLoad(s, body) == LoadStores(s, Request("simulate", NoContainer, body))

SimulateSave(s) == SaveStores(s, "simulate")

\* no request is being handled or has been handled
AllIdle == \A s \in Slots : requests[s].phase = "idle"

\* the station is filled and arranged, then two requests arrive
ConcurrentNext ==
    \/ AllIdle /\ \E rows \in ImportFiles : ImportItems(rows)
    \/ AllIdle /\ CalculatePlacement
    \/ \E s \in Slots, id \in ItemIds : RetrieveLoad(s, id)
    \/ \E s \in Slots : RetrieveSave(s)
    \/ \E s \in Slots, r \in SimRequests : SimulateLoad(s, r)
    \/ \E s \in Slots : SimulateSave(s)

ConcurrentSpec == Init /\ [][ConcurrentNext]_vars

(***************************************************************************)
(* Properties                                                              *)
(***************************************************************************)
Stored == DOMAIN items

LocatedIn(i, c) == i \in Stored /\ items[i].currentLocation.containerId = c

ItemBox(i) == Box(items[i].currentLocation.position, items[i].currentLocation.rotation)

RECURSIVE SumVolumes(_)
SumVolumes(s) == IF s = <<>> THEN 0 ELSE get_volume(Head(s)) + SumVolumes(Tail(s))

RetrievalOps == {"retrieve_item", "get_retrieval_path"}

\* C1: any two items located in the same container have boxes with disjoint
\* interiors, also when they were placed by different calculate_placement calls
C1_NoOverlap ==
    \A i \in Stored, j \in Stored :
        (i # j /\ HasLocation(items[i])
               /\ LocatedIn(j, items[i].currentLocation.containerId))
            => ~BoxesOverlap(ItemBox(i), ItemBox(j))

\* C2: an item located in container c is listed by c, which exists, and by no
\* other container
C2_LocatedItemsListedOnce ==
    \A i \in Stored :
        HasLocation(items[i]) =>
            LET c == items[i].currentLocation.containerId
            IN  /\ c \in DOMAIN containers
                /\ InSeq(i, containers[c].items)
                /\ \A d \in DOMAIN containers : d # c => ~InSeq(i, containers[d].items)

\* C3: occupiedSpace of every container is the sum of the volumes of the items
\* it lists and lies between 0 and the container's volume
C3_OccupiedIsSum ==
    \A c \in DOMAIN containers :
        /\ containers[c].occupiedSpace = SumVolumes(containers[c].items)
        /\ 0 <= containers[c].occupiedSpace
        /\ containers[c].occupiedSpace <= Capacity(c)

\* C4: a calculate_placement call that directly follows another one, with no
\* item added in between, emits no placement
C4_PlacementIdempotent ==
    [][(result.op = "calculate_placement" /\ result'.op = "calculate_placement")
          => result'.placements = <<>>]_vars

\* the position of the retrieve step in a plan
RetrieveIndex(steps) == CHOOSE k \in 1..Len(steps) : steps[k].action = "retrieve"

\* Y lies nearer the access face than X and covers part of X's x-z projection
InFrontOf(y, x) ==
    /\ y # x
    /\ LocatedIn(y, items[x].currentLocation.containerId)
    /\ items[y].currentLocation.position[2] < items[x].currentLocation.position[2]
    /\ RangesOverlap(items[y].currentLocation.position[1],
                     items[y].currentLocation.rotation[1],
                     items[x].currentLocation.position[1],
                     items[x].currentLocation.rotation[1])
    /\ RangesOverlap(items[y].currentLocation.position[3],
                     items[y].currentLocation.rotation[3],
                     items[x].currentLocation.position[3],
                     items[x].currentLocation.rotation[3])

\* C5: the plan for a target X moves every item Y that stands in front of X
\* aside before the retrieve step and back after it
C5_FrontItemIsMoved ==
    [][(result'.op \in RetrievalOps /\ result'.ok) =>
          LET x == result'.itemId
              s == result'.steps
              r == RetrieveIndex(s)
          IN  \A y \in Stored : InFrontOf(y, x) =>
                  /\ \E k \in 1..(r - 1) : s[k].action = "move" /\ s[k].itemId = y
                  /\ \E k \in (r + 1)..Len(s) : s[k].action = "move" /\ s[k].itemId = y]_vars

\* C6: a plan is n move-aside steps from the origin, one retrieve step, and
\* the n restore steps in exactly the reverse order of the move-aside steps
C6_RestoreInReverse ==
    (result.op \in RetrievalOps /\ result.ok) =>
        LET s == result.steps
            r == RetrieveIndex(s)
            n == r - 1
        IN  /\ Len(s) = 2 * n + 1
            /\ s[r].itemId = result.itemId
            /\ \A k \in 1..n : /\ s[k].action = "move"
                               /\ s[k].fromContainer = s[r].fromContainer
            /\ \A k \in 1..n : /\ s[r + k].action = "move"
                               /\ s[r + k].itemId = s[r - k].itemId
                               /\ s[r + k].fromContainer = s[r - k].toContainer
                               /\ s[r + k].toContainer = s[r].fromContainer

\* where the items are after the move steps of a plan have been carried out
RECURSIVE Execute(_, _)
Execute(where, steps) ==
    IF steps = <<>> THEN where
    ELSE LET st == Head(steps)
         IN  Execute(IF st.action = "move"
                     THEN [where EXCEPT ![st.itemId] = st.toContainer]
                     ELSE where,
                     Tail(steps))

\* C7: every blocker moved aside to d is moved back exactly once, after the
\* retrieve step, from d to the origin; carrying out the plan's moves leaves
\* every item in the container it was in
C7_RoundTrip ==
    [][(result'.op \in RetrievalOps /\ result'.ok) =>
          LET s == result'.steps
              r == RetrieveIndex(s)
              origin == items[result'.itemId].currentLocation.containerId
              before == [i \in Stored |-> items[i].currentLocation.containerId]
          IN  /\ Cardinality({k \in 1..Len(s) : s[k].action = "retrieve"}) = 1
              /\ \A k \in 1..(r - 1) :
                    /\ s[k].action = "move" /\ s[k].fromContainer = origin
                    /\ Cardinality({j \in 1..Len(s) :
                                       j # k /\ s[j].itemId = s[k].itemId}) = 1
                    /\ \E j \in (r + 1)..Len(s) :
                          /\ s[j].itemId = s[k].itemId
                          /\ s[j].action = "move"
                          /\ s[j].fromContainer = s[k].toContainer
                          /\ s[j].toContainer = origin
              /\ \A j \in (r + 1)..Len(s) :
                    \E k \in 1..(r - 1) : s[k].itemId = s[j].itemId
              /\ Execute(before, s) = before]_vars

\* a plan that moved one blocker to a real container, one to temporary
\* storage, and both back
C7_Witness ==
    /\ result.op \in RetrievalOps /\ result.ok
    /\ Len(result.steps) = 5
    /\ \E k \in 1..2 : result.steps[k].toContainer \in ContainerIds
    /\ \E k \in 1..2 : result.steps[k].toContainer = TEMPORARY_STORAGE

\* C8: get_retrieval_path changes no item and no container, whether the item
\* is found or not
C8_PreviewMutatesNothing ==
    [][result'.op = "get_retrieval_path" =>
          /\ items' = items
          /\ containers' = containers
          /\ itemOrder' = itemOrder]_vars

\* a preview that found its item behind a blocker
C8_Witness ==
    /\ result.op = "get_retrieval_path" /\ result.ok
    /\ Len(result.steps) >= 3
    /\ HasLocation(items[result.itemId])

\* C9: a successful retrieve_item takes one use off a positive usageLimit and
\* leaves a zero one, marks the item waste when the limit reaches 0, unlists
\* it from its container, clears its location and changes no other item
C9_RetrieveEffect ==
    [][(result'.op = "retrieve_item" /\ result'.ok) =>
          LET id == result'.itemId
              c  == items[id].currentLocation.containerId
              u  == items[id].usageLimit
          IN  /\ u > 0 => items'[id].usageLimit = u - 1
              /\ u <= 0 => items'[id].usageLimit = 0
              /\ items'[id].usageLimit >= 0
              /\ (u > 0 /\ items'[id].usageLimit = 0) => items'[id].isWaste
              /\ ~InSeq(id, containers'[c].items)
              /\ items'[id].currentLocation = NoLocation
              /\ DOMAIN items' = DOMAIN items
              /\ \A j \in Stored : j # id => items'[j] = items[j]]_vars

\* a retrieval that used up the last use of an item its container listed
C9_Witness ==
    /\ result.op = "retrieve_item" /\ result.ok
    /\ items[result.itemId].usageLimit = 0
    /\ items[result.itemId].isWaste
    /\ ItemUsage(result.itemId) > 0

\* the three not-found conditions, on the arguments of a call
NotFound(id, cs) ==
    \/ id \notin Stored
    \/ ~HasLocation(items[id])
    \/ items[id].currentLocation.containerId \notin cs

\* C10: retrieve_item and get_retrieval_path on an ID that is not stored, has
\* no location or names a container that was not passed return (False, [])
\* and change nothing; a retrieve_item right after a successful one of the same
\* item returns not-found
C10_NotFound ==
    [][/\ (result'.op \in RetrievalOps /\ NotFound(result'.itemId, result'.containers))
          => /\ ~result'.ok
             /\ result'.steps = <<>>
             /\ items' = items
             /\ containers' = containers
             /\ itemOrder' = itemOrder
       /\ (/\ result.op = "retrieve_item" /\ result.ok
           /\ result'.op = "retrieve_item" /\ result'.itemId = result.itemId)
          => ~result'.ok]_vars

\* a not-found answer for a stored, located item whose container was not passed
C10_Witness ==
    /\ result.op = "retrieve_item" /\ ~result.ok
    /\ result.itemId \in Stored
    /\ HasLocation(items[result.itemId])
    /\ items[result.itemId].currentLocation.containerId \notin result.containers

\* C11: an item whose isWaste flag is true keeps it true for as long as the
\* item is in the store, whatever operation is carried out
C11_WasteMonotone ==
    [][\A i \in Stored : (items[i].isWaste /\ i \in DOMAIN items') => items'[i].isWaste]_vars

\* C12: every stored item of the used-items batch whose usageLimit is 1
\* before a simulate request has usageLimit 0 and isWaste true after it and
\* is listed in usageDepletedItems with reason Out of Uses
C12_UsageDepletion ==
    [][result'.op = "simulate_days" =>
          \A k \in 1..Len(result'.itemsUsed) :
              LET i == result'.itemsUsed[k]
              IN  (i \in Stored /\ items[i].usageLimit = 1) =>
                      /\ items'[i].usageLimit = 0
                      /\ items'[i].isWaste
                      /\ \E j \in 1..Len(result'.usageDepletedItems) :
                            /\ result'.usageDepletedItems[j].itemId = i
                            /\ result'.usageDepletedItems[j].reason.text = "Out of Uses"]_vars

\* the stored items that are not waste and whose expiry day lies in (old, new]
ExpiringBetween(old, new) ==
    {i \in Stored : /\ ~items[i].isWaste
                    /\ ItemExpiryDays(i) # -1
                    /\ old < ItemExpiryDays(i)
                    /\ ItemExpiryDays(i) <= new}

\* C13: a simulate request that takes the clock from old to new marks as
\* waste, and reports as Expired with their container and position, exactly
\* the items that were not waste and expire in (old, new]; the isWaste flag
\* of every other item is left as it was
C13_ExpiryInSimulate ==
    [][result'.op = "simulate_days" =>
          LET exp == ExpiringBetween(CURRENT_DATE, CURRENT_DATE')
              ws  == result'.wasteItems
          IN  /\ result'.oldDate = CURRENT_DATE /\ result'.newDate = CURRENT_DATE'
              /\ DOMAIN items' = DOMAIN items
              /\ \A i \in exp : items'[i].isWaste
              /\ \A i \in Stored \ exp : items'[i].isWaste = items[i].isWaste
              /\ {ws[k].itemId : k \in 1..Len(ws)} = exp
              /\ Len(ws) = Cardinality(exp)
              /\ \A k \in 1..Len(ws) :
                    /\ ws[k].reason.text = "Expired"
                    /\ ws[k].containerId = items[ws[k].itemId].currentLocation.containerId
                    /\ ws[k].containerId # NoContainer =>
                          ws[k].position = items[ws[k].itemId].currentLocation.position]_vars

\* a simulate request that reported a located item as expired on the very day
\* the clock arrived at, and left a used item alone
C13_Witness ==
    /\ result.op = "simulate_days"
    /\ \E k \in 1..Len(result.wasteItems) :
          /\ result.wasteItems[k].containerId \in ContainerIds
          /\ ItemExpiryDays(result.wasteItems[k].itemId) = result.newDate
    /\ \E i \in Stored : ~items[i].isWaste

\* C14: the current date never moves back, and only a simulate request
\* changes it
C14_ClockAdvancesOnly ==
    [][/\ CURRENT_DATE' >= CURRENT_DATE
       /\ result'.op # "simulate_days" => CURRENT_DATE' = CURRENT_DATE]_vars

RECURSIVE SumMass(_)
\* total mass, in grams, of a set of items
SumMass(S) ==
    IF S = {} THEN 0
    ELSE LET i == CHOOSE x \in S : TRUE IN ItemMass(i) + SumMass(S \ {i})

PlanItems(steps) == {steps[k].itemId : k \in 1..Len(steps)}

\* C15: the distinct items of a waste return plan weigh at most max_weight
\* together
C15_PlanWithinMaxWeight ==
    [][result'.op = "waste_return_plan" =>
          SumMass(PlanItems(result'.steps)) <= result'.maxWeight]_vars

\* the source container of item i in a waste list
SourceOf(ws, i) == (CHOOSE w \in {ws[k] : k \in 1..Len(ws)} : w.itemId = i).containerId

\* the positions of the steps of a plan that name item i
StepsOf(steps, i) == {k \in 1..Len(steps) : steps[k].itemId = i}

\* C16: in a waste return plan every selected item with a source container
\* has a remove step from that container immediately followed by its place
\* step into the undocking container, every selected item without one has
\* only the place step, and no other item appears
C16_RemoveThenPlace ==
    [][result'.op = "waste_return_plan" =>
          LET s      == result'.steps
              ws     == result'.wasteItems
              undock == result'.itemId
              sel    == final_selected_items(ws, result'.maxWeight)
          IN  /\ PlanItems(s) = IF ws = <<>> THEN {} ELSE sel
              /\ \A i \in PlanItems(s) :
                    /\ Cardinality({k \in StepsOf(s, i) : s[k].action = "place"}) = 1
                    /\ \A k \in StepsOf(s, i) :
                          s[k].action = "place" => s[k].toContainer = undock
                    /\ SourceOf(ws, i) # NoContainer =>
                          /\ Cardinality(StepsOf(s, i)) = 2
                          /\ \E k \in 1..(Len(s) - 1) :
                                /\ s[k].itemId = i /\ s[k].action = "remove"
                                /\ s[k].fromContainer = SourceOf(ws, i)
                                /\ s[k + 1].itemId = i /\ s[k + 1].action = "place"
                    /\ SourceOf(ws, i) = NoContainer => Cardinality(StepsOf(s, i)) = 1]_vars

\* a plan that takes one item out of a container, places another that has
\* none, and leaves a third waste item behind
C16_Witness ==
    /\ result.op = "waste_return_plan"
    /\ \E k \in 1..Len(result.steps) : result.steps[k].action = "remove"
    /\ \E i \in PlanItems(result.steps) : SourceOf(result.wasteItems, i) = NoContainer
    /\ Len(result.wasteItems) > Cardinality(PlanItems(result.steps))

\* the step ordinals of a plan, in list order, are 1, 2, ..., n
Contiguous(steps) == \A k \in 1..Len(steps) : steps[k].step = k

\* C17: the step ordinals of every emitted plan (retrieval steps,
\* rearrangement steps, waste return plan, return steps of
\* identify_waste_items) are 1, 2, ..., n in list order
C17_OrdinalsContiguous ==
    /\ Contiguous(result.steps)
    /\ Contiguous(result.returnSteps)

\* a rearrangement plan with steps for two target items
C17_Witness ==
    /\ result.op = "calculate_placement"
    /\ Len(result.steps) >= 4
    /\ Cardinality({k \in 1..Len(result.steps) : result.steps[k].action = "place"}) >= 2

\* C18: the planner is deterministic: in every state, whatever order the
\* set of moved blockers is iterated in, get_retrieval_path yields the same
\* steps for the same item and containers
C18_Deterministic ==
    \A id \in ItemIds, cs \in ContainerArgs :
        LET conts == Restrict(containers, cs)
        IN  Locatable(id, items, conts) =>
                \A b1, b2 \in BackOrders(id, items, itemOrder, conts) :
                    _generate_optimized_retrieval_steps(id, items, itemOrder, conts, b1)
                        = _generate_optimized_retrieval_steps(id, items, itemOrder, conts, b2)

\* C19: identify_waste_items lists with reason "Out of Uses", and marks as
\* waste, every item that was not marked waste, has no uses left and is
\* neither expired nor within 5 days of expiry, whether its expiry date is
\* "N/A" or more than 5 days ahead
C19_OutOfUsesListed ==
    [][result'.op = "identify_waste" =>
          \A i \in DOMAIN items :
              (/\ ~items[i].isWaste
               /\ items[i].usageLimit <= 0
               /\ (~HasExpiry(i) \/ ItemExpiryDays(i) - CURRENT_DATE > 5))
              => /\ items'[i].isWaste
                 /\ \E k \in 1..Len(result'.wasteItems) :
                       /\ result'.wasteItems[k].itemId = i
                       /\ result'.wasteItems[k].reason.text = "Out of Uses"]_vars

\* item i is in the items list of container c
ListedIn(conts, c, i) == \E k \in 1..Len(conts[c].items) : conts[c].items[k] = i

\* C20: after complete_undocking(plan_steps) every stored item named in a
\* move, remove or place step has no location and is not in the items list
\* of the container it was attached to; every other item keeps its location
\* and its membership of every container
C20_UndockingEffect ==
    [][result'.op = "complete_undocking" =>
          LET ids == removed_item_ids(result'.steps)
          IN  /\ \A i \in ids \cap DOMAIN items :
                    /\ items'[i].currentLocation = NoLocation
                    /\ HasLocation(items[i]) =>
                          ~ListedIn(containers', items[i].currentLocation.containerId, i)
              /\ \A i \in (DOMAIN items) \ ids :
                    /\ items'[i].currentLocation = items[i].currentLocation
                    /\ \A c \in DOMAIN containers :
                          ListedIn(containers', c, i) <=> ListedIn(containers, c, i)]_vars

\* a plan with a remove step has been completed: its item has no location
\* and is in no list, and an item outside the plan is still located and
\* listed in its container
C20_Witness ==
    /\ result.op = "complete_undocking"
    /\ \E k \in 1..Len(result.steps) : result.steps[k].action = "remove"
    /\ \E i \in removed_item_ids(result.steps) \cap DOMAIN items :
          /\ items[i].currentLocation = NoLocation
          /\ \A c \in DOMAIN containers : ~ListedIn(containers, c, i)
    /\ \E j \in (DOMAIN items) \ removed_item_ids(result.steps) :
          /\ HasLocation(items[j])
          /\ ListedIn(containers, items[j].currentLocation.containerId, j)

\* C21: when the complete-undocking route for container U follows a waste
\* return plan generated for U, every item the plan placed into U is out of
\* the item store and out of every container's items list
C21_UndockEndToEnd ==
    [][(/\ result.op = "waste_return_plan"
        /\ result'.op = "api_complete_undocking"
        /\ result'.itemId = result.itemId)
       => \A i \in PlanItems(result.steps) :
             /\ i \notin DOMAIN items'
             /\ \A c \in DOMAIN containers' : ~ListedIn(containers', c, i)]_vars

\* the items a plan moves aside before its retrieve step
MovedAside(steps) ==
    {steps[k].itemId : k \in {j \in 1..(RetrieveIndex(steps) - 1) :
                                 steps[j].action = "move"}}

\* the blocker set of the rule for target x: the other items located in x's
\* container whose y-min is at least x's and whose x-range and z-range meet
\* [x, x+w) and [z, z+h)
RuleBlockers(x) ==
    LET t == items[x].currentLocation
    IN  {o \in Stored \ {x} :
            LET l == items[o].currentLocation
            IN  /\ l.containerId = t.containerId
                /\ l.position[2] >= t.position[2]
                /\ l.position[1] < t.position[1] + t.rotation[1]
                /\ t.position[1] < l.position[1] + l.rotation[1]
                /\ l.position[3] < t.position[3] + t.rotation[3]
                /\ t.position[3] < l.position[3] + l.rotation[3]}

RECURSIVE ScaledWeight(_)
\* the total centigram-scaled weight of a set of items
ScaledWeight(S) ==
    IF S = {} THEN 0
    ELSE LET i == CHOOSE x \in S : TRUE
         IN  scaled(ItemMass(i)) + ScaledWeight(S \ {i})

RECURSIVE KnapsackValue(_, _, _)
\* the total value of the items of S in the waste list ws, from index k on
KnapsackValue(ws, S, k) ==
    IF k > Len(ws) THEN 0
    ELSE (IF ws[k].itemId \in S THEN item_value(k - 1, Len(ws), ws[k].itemId) ELSE 0)
         + KnapsackValue(ws, S, k + 1)

\* C23: the items of a waste return plan have the largest total knapsack
\* value among the subsets of the waste list whose total scaled weight is at
\* most the scaled max_weight
C23_KnapsackOptimal ==
    [][result'.op = "waste_return_plan" =>
          LET ws  == result'.wasteItems
              ids == {ws[k].itemId : k \in 1..Len(ws)}
              sel == PlanItems(result'.steps)
          IN  \A S \in SUBSET ids :
                  ScaledWeight(S) <= scaled(result'.maxWeight)
                      => KnapsackValue(ws, S, 1) <= KnapsackValue(ws, sel, 1)]_vars

\* twice the weighted score 2*priority - min(100, days_until_expiry)
\* + 0.5*min(100, usageLimit) of a stored item
Score2(i) ==
    4 * ItemPriority(i) - 2 * Min(100, days_until_expiry(i)) + Min(100, items[i].usageLimit)

\* a is attempted no later than b: higher score, or equal score and a volume
\* at least as large
AttemptedFirst(a, b) ==
    \/ Score2(a) > Score2(b)
    \/ Score2(a) = Score2(b) /\ get_volume(a) >= get_volume(b)

RECURSIVE SeqVolume(_, _, _)
\* the total volume of the stored items of the list s whose priority is below
\* the target's
SeqVolume(s, target, its) ==
    IF s = <<>> THEN 0
    ELSE (IF Head(s) \in DOMAIN its /\ ItemPriority(Head(s)) < ItemPriority(target)
          THEN get_volume(Head(s)) ELSE 0)
         + SeqVolume(Tail(s), target, its)

RECURSIVE CandidateVolume(_, _, _, _)
\* the cumulative volume the lower-priority items listed in the containers of
\* the target's preferred zone can free, from container k on
CandidateVolume(target, its, conts, k) ==
    IF k > Len(ContainerOrder) THEN 0
    ELSE (IF ContainerZone(ContainerOrder[k]) = ItemZone(target)
          THEN SeqVolume(conts[ContainerOrder[k]].items, target, its) ELSE 0)
         + CandidateVolume(target, its, conts, k + 1)

\* C25: when the lower-priority items in an unplaced target's preferred zone
\* cannot free a cumulative volume of at least the target's volume, the
\* rearrangement plan holds no step for that target: no move step on its
\* behalf and no place step
C25_NoStepsOnFailure ==
    [][result'.op = "calculate_placement" =>
          \A t \in DOMAIN items' :
              (/\ ~HasLocation(items'[t])
               /\ CandidateVolume(t, items', containers', 1) < get_volume(t))
              => /\ rearrange_target(t, items', containers', 1) = <<>>
                 /\ \A k \in 1..Len(result'.steps) :
                       ~(result'.steps[k].action = "place"
                         /\ result'.steps[k].itemId = t)]_vars

RECURSIVE AssignedBefore(_, _, _)
\* the volume of the blockers that the steps before step k send to container c
AssignedBefore(steps, k, c) ==
    IF k <= 1 THEN 0
    ELSE (IF steps[k - 1].toContainer = c THEN get_volume(steps[k - 1].itemId) ELSE 0)
         + AssignedBefore(steps, k - 1, c)

\* the cached free volume of container c when step k is planned
CachedFree(conts, steps, k, c) ==
    get_available_space(conts[c], c) - AssignedBefore(steps, k, c)

\* C26: every blocker of a retrieval plan is sent to a container other than
\* the origin whose cached free volume is at least the blocker's volume when
\* there is one, and to temporary storage only when there is none
C26_TemporaryRelocation ==
    [][(result'.op \in RetrievalOps /\ result'.ok) =>
          LET s      == result'.steps
              conts  == Restrict(containers, result'.containers)
              origin == items[result'.itemId].currentLocation.containerId
          IN  \A k \in 1..(RetrieveIndex(s) - 1) :
                  LET fits == {c \in (DOMAIN conts) \ {origin} :
                                  CachedFree(conts, s, k, c) >= get_volume(s[k].itemId)}
                  IN  IF fits = {} THEN s[k].toContainer = TEMPORARY_STORAGE
                      ELSE s[k].toContainer \in fits]_vars

\* C28: an attach that add_item refuses leaves the item without a location
\* and emits no placement, so every placement calculate_placement emits is of
\* an item that add_item attached: the item is in the items list of the
\* placement's container
C28_RefusedAttachMutatesNothing ==
    [][result'.op = "calculate_placement" =>
          \A k \in 1..Len(result'.placements) :
              ListedIn(containers', result'.placements[k].containerId,
                       result'.placements[k].itemId)]_vars

\* C27: when the second of two requests finishes, the stores are those that
\* handling the two requests one after the other, in one of the two orders,
\* leaves behind
C27_Serializable ==
    [][\A s \in Slots :
          (/\ requests[s].phase = "loaded"
           /\ requests'[s].phase = "done"
           /\ requests[3 - s].phase = "done")
          => LET S0 == requests[1].stores
                 p  == requests[1].req
                 q  == requests[2].req
             IN  Stores(items', itemOrder', containers', CURRENT_DATE')
                     \in {handle_alone(q, handle_alone(p, S0)),
                          handle_alone(p, handle_alone(q, S0))}]_vars

\* C29: a waste identification that directly follows a waste identification,
\* on the same date, reports the same waste items with the same reasons in
\* the same order
C29_StableClassification ==
    [][(result.op = "identify_waste" /\ result'.op = "identify_waste"
          /\ CURRENT_DATE' = CURRENT_DATE)
          => result'.wasteItems = result.wasteItems]_vars

RECURSIVE MovedInto(_, _)
\* the total volume of the items that the move steps of a plan send to
\* container c
MovedInto(steps, c) ==
    IF steps = <<>> THEN 0
    ELSE (IF Head(steps).action = "move" /\ Head(steps).toContainer = c
          THEN get_volume(Head(steps).itemId) ELSE 0)
         + MovedInto(Tail(steps), c)

\* C30: in a rearrangement plan no item is moved by more than one move step,
\* and the items moved into a container of the station fit together in the
\* space the container has available
C30_MovesOnceAndFit ==
    [][result'.op = "calculate_placement" =>
          /\ \A j, k \in 1..Len(result'.steps) :
                (/\ j < k
                 /\ result'.steps[j].action = "move"
                 /\ result'.steps[k].action = "move")
                => result'.steps[j].itemId # result'.steps[k].itemId
          /\ \A c \in ContainerIds :
                MovedInto(result'.steps, c)
                    <= get_available_space(containers'[c], c)]_vars

====
